---- MODULE Spec2Model ----
(***************************************************************************)
(* Model of the EXFOR tooling: the remote fetcher of exfor_load.py         *)
(* (get_dataset_list, get_data and their three-step repair of the          *)
(* near-JSON response text) and the file aggregator of                     *)
(* exfortables_parser.py (parse_exfor_like_file, build_big_dataframe).     *)
(* Text is a sequence of one-character strings.                            *)
(***************************************************************************)
EXTENDS Integers, Sequences, FiniteSets, TLC

VARIABLES
    \* exfor_load.py: the service's document, the function called, its
    \* position, its local text and what it returned
    server, fn, pc, text, result,
    \* parse_exfor_like_file: its argument, the file's text, its locals, its
    \* position
    fp, file, lines, z, a, mt, colnames, data_rows, ncols, df, ppc,
    \* build_big_dataframe: the directory tree, the matches of the glob not yet
    \* yielded, the files parsed so far, its locals, its position
    fs, todo, visited, all_dfs, big, apc

fetchVars == <<server, fn, pc, text, result>>
parseVars == <<fp, file, lines, z, a, mt, colnames, data_rows, ncols, df, ppc>>
aggVars == <<fs, todo, visited, all_dfs, big, apc>>
vars == <<fetchVars, parseVars, aggVars>>

(***************************************************************************)
(* Characters and generic string helpers                                   *)
(***************************************************************************)
Quote == "\""
Backslash == "\\"

\* The members of the class [\x00-\x1F\x7F] that a TLA+ string can spell.
CtrlChars == {"\t", "\n", "\f", "\r"}

\* Python's \s on the characters of the model's alphabet.
ReSpace == {" ", "\t", "\n", "\f", "\r"}

Digits == {"0", "1", "2", "3", "4", "5", "6", "7", "8", "9"}

Letters == {"a", "b", "c", "d", "e", "f", "g", "h", "i", "j", "k", "l", "m",
            "n", "o", "p", "q", "r", "s", "t", "u", "v", "w", "x", "y", "z",
            "A", "B", "C", "D", "E", "F", "G", "H", "I", "J", "K", "L", "M",
            "N", "O", "P", "Q", "R", "S", "T", "U", "V", "W", "X", "Y", "Z"}

\* The regex class [A-Za-z0-9_] of the null-fill pattern.
KeyChars == Letters \cup Digits \cup {"_"}

DigitVal(c) ==
    CASE c = "0" -> 0 [] c = "1" -> 1 [] c = "2" -> 2 [] c = "3" -> 3
      [] c = "4" -> 4 [] c = "5" -> 5 [] c = "6" -> 6 [] c = "7" -> 7
      [] c = "8" -> 8 [] c = "9" -> 9

\* s[i..] starts with the characters of p.
StartsWithAt(s, i, p) ==
    /\ i + Len(p) - 1 <= Len(s)
    /\ \A k \in 1..Len(p) : s[i + k - 1] = p[k]

\* p occurs somewhere in s.
Contains(s, p) == \E i \in 1..(Len(s) + 1) : StartsWithAt(s, i, p)

Min(S) == CHOOSE x \in S : \A y \in S : x <= y
Max(S) == CHOOSE x \in S : \A y \in S : y <= x

RECURSIVE ReplaceFrom(_, _, _, _)
\* From i on: up to the leftmost occurrence of old, new in its place, and on
\* from the end of that occurrence.
ReplaceFrom(s, i, old, new) ==
    LET hits == {k \in i..Len(s) : StartsWithAt(s, k, old)} IN
    IF hits = {} THEN SubSeq(s, i, Len(s))
    ELSE SubSeq(s, i, Min(hits) - 1) \o new
            \o ReplaceFrom(s, Min(hits) + Len(old), old, new)

\* str.replace(old, new) for a non-empty old: leftmost, non-overlapping.
StrReplace(s, old, new) == ReplaceFrom(s, 1, old, new)

(***************************************************************************)
(* The repair steps of get_dataset_list / get_data                         *)
(***************************************************************************)
\* Step 1: re.sub(r"[\x00-\x1F\x7F]", "", text)
StripControl(s) == SelectSeq(s, LAMBDA c : c \notin CtrlChars)

\* The first index >= i whose character is outside class (greedy run).
RunEnd(s, i, class) ==
    LET stops == {k \in i..Len(s) : s[k] \notin class} IN
    IF i > Len(s) THEN i ELSE IF stops = {} THEN Len(s) + 1 ELSE Min(stops)

NullText == <<" ", "n", "u", "l", "l">>

\* The pattern without its \s* : "([A-Za-z0-9_]+)":, with the comma directly
\* after the colon.
NullFieldMatchEnd_NoSpace(s, i) ==
    IF ~(i <= Len(s) /\ s[i] = Quote) THEN 0
    ELSE LET k == RunEnd(s, i + 1, KeyChars) IN
         IF k = i + 1 \/ ~StartsWithAt(s, k, <<Quote, ":", ",">>) THEN 0
         ELSE k + 3

\* A match of "([A-Za-z0-9_]+)":\s*, starting at i: the index after the
\* match, or 0 when the pattern does not match there.
NullFieldMatchEnd(s, i) ==
    IF ~(i <= Len(s) /\ s[i] = Quote) THEN 0
    ELSE LET k == RunEnd(s, i + 1, KeyChars) IN
         IF k = i + 1 \/ ~StartsWithAt(s, k, <<Quote, ":">>) THEN 0
         ELSE LET c == RunEnd(s, k + 2, ReSpace) IN
              IF c <= Len(s) /\ s[c] = "," THEN c + 1 ELSE 0

RECURSIVE FillNullFrom(_, _)
\* From i on: up to the leftmost match, "key": null, in its place, and on from
\* the end of that match.
FillNullFrom(s, i) ==
    LET hits == {k \in i..Len(s) : NullFieldMatchEnd(s, k) # 0} IN
    IF hits = {} THEN SubSeq(s, i, Len(s))
    ELSE LET h == Min(hits)
             k == RunEnd(s, h + 1, KeyChars)
         IN  SubSeq(s, i, k) \o <<":">> \o NullText \o <<",">>
                \o FillNullFrom(s, NullFieldMatchEnd(s, h))

\* Step 2: re.sub(r'"([A-Za-z0-9_]+)":\s*,', r'"\1": null,', text)
FillNull(s) == FillNullFrom(s, 1)

\* Step 3: text.replace(",]", "]").replace(",}", "}")
FixTrailing(s) ==
    StrReplace(StrReplace(s, <<",", "]">>, <<"]">>), <<",", "}">>, <<"}">>)

(***************************************************************************)
(* json.loads: a strict JSON reader.  Values are records tagged by t.      *)
(***************************************************************************)
JNull == [t |-> "null"]
JNum(n) == [t |-> "num", n |-> n]
JStr(chars) == [t |-> "str", s |-> chars]
JArr(items) == [t |-> "arr", items |-> items]
JObj(members) == [t |-> "obj", members |-> members]

JsonWs == {" ", "\t", "\n", "\r"}

ParseFail == [ok |-> FALSE, val |-> JNull, pos |-> 0]
ParseOk(v, p) == [ok |-> TRUE, val |-> v, pos |-> p]

SkipWs(s, i) == RunEnd(s, i, JsonWs)

RECURSIVE ScanString(_, _, _)
\* The characters of a string body from i up to its closing quote.
ScanString(s, i, acc) ==
    IF i > Len(s) \/ s[i] \in CtrlChars THEN ParseFail
    ELSE IF s[i] = Quote THEN ParseOk(JStr(acc), i + 1)
    ELSE IF s[i] = Backslash
         THEN IF i + 1 <= Len(s) /\ s[i + 1] \in {Quote, Backslash, "/"}
              THEN ScanString(s, i + 2, Append(acc, s[i + 1]))
              ELSE ParseFail
    ELSE ScanString(s, i + 1, Append(acc, s[i]))

RECURSIVE DigitsValue(_, _, _, _)
DigitsValue(s, i, e, acc) ==
    IF i >= e THEN acc ELSE DigitsValue(s, i + 1, e, 10 * acc + DigitVal(s[i]))

\* -?(0|[1-9][0-9]*) ; fractions and exponents are outside the alphabet.
ParseNumber(s, i) ==
    LET neg == i <= Len(s) /\ s[i] = "-"
        b == IF neg THEN i + 1 ELSE i
        e == IF b <= Len(s) /\ s[b] = "0" THEN b + 1 ELSE RunEnd(s, b, Digits)
    IN  IF e = b THEN ParseFail
        ELSE ParseOk(JNum((IF neg THEN -1 ELSE 1) * DigitsValue(s, b, e, 0)), e)

\* The members of an object as a mapping; a repeated key keeps its last value.
MembersOf(pairs) ==
    [k \in {pairs[i][1] : i \in 1..Len(pairs)} |->
        pairs[CHOOSE i \in 1..Len(pairs) :
                 /\ pairs[i][1] = k
                 /\ \A j \in (i + 1)..Len(pairs) : pairs[j][1] # k][2]]

RECURSIVE ParseValue(_, _), ParseElems(_, _, _), ParseMembers(_, _, _)
ParseValue(s, i0) ==
    LET i == SkipWs(s, i0) IN
    IF i > Len(s) THEN ParseFail
    ELSE IF s[i] = Quote THEN ScanString(s, i + 1, <<>>)
    ELSE IF s[i] = "[" THEN
        LET j == SkipWs(s, i + 1) IN
        IF j <= Len(s) /\ s[j] = "]" THEN ParseOk(JArr(<<>>), j + 1)
        ELSE ParseElems(s, j, <<>>)
    ELSE IF s[i] = "{" THEN
        LET j == SkipWs(s, i + 1) IN
        IF j <= Len(s) /\ s[j] = "}" THEN ParseOk(JObj(<<>>), j + 1)
        ELSE ParseMembers(s, j, <<>>)
    ELSE IF StartsWithAt(s, i, <<"n", "u", "l", "l">>) THEN ParseOk(JNull, i + 4)
    ELSE ParseNumber(s, i)

\* value (, value)* ] with the opening bracket consumed.
ParseElems(s, i, acc) ==
    LET v == ParseValue(s, i) IN
    IF ~v.ok THEN ParseFail
    ELSE LET j == SkipWs(s, v.pos) IN
         IF j > Len(s) THEN ParseFail
         ELSE IF s[j] = "]" THEN ParseOk(JArr(Append(acc, v.val)), j + 1)
         ELSE IF s[j] = "," THEN ParseElems(s, j + 1, Append(acc, v.val))
         ELSE ParseFail

\* "key" : value (, "key" : value)* } with the opening brace consumed.
ParseMembers(s, i0, acc) ==
    LET i == SkipWs(s, i0) IN
    IF ~(i <= Len(s) /\ s[i] = Quote) THEN ParseFail
    ELSE LET k == ScanString(s, i + 1, <<>>) IN
         IF ~k.ok THEN ParseFail
         ELSE LET c == SkipWs(s, k.pos) IN
              IF ~(c <= Len(s) /\ s[c] = ":") THEN ParseFail
              ELSE LET v == ParseValue(s, c + 1) IN
                   IF ~v.ok THEN ParseFail
                   ELSE LET j == SkipWs(s, v.pos)
                            acc2 == Append(acc, <<k.val.s, v.val>>)
                        IN  IF j > Len(s) THEN ParseFail
                            ELSE IF s[j] = "}"
                                 THEN ParseOk(JObj(MembersOf(acc2)), j + 1)
                            ELSE IF s[j] = ","
                                 THEN ParseMembers(s, j + 1, acc2)
                            ELSE ParseFail

\* json.loads(text): the value, or a JSONDecodeError.
JsonLoads(s) ==
    LET v == ParseValue(s, 1) IN
    IF v.ok /\ SkipWs(s, v.pos) > Len(s)
    THEN [ok |-> TRUE, val |-> v.val]
    ELSE [ok |-> FALSE, err |-> "JSONDecodeError"]

X4Datasets == <<"x", "4", "D", "a", "t", "a", "s", "e", "t", "s">>

\* json.loads(text)['x4Datasets']
LoadDatasetList(s) ==
    LET d == JsonLoads(s) IN
    IF ~d.ok THEN d
    ELSE IF d.val.t = "obj" /\ X4Datasets \in DOMAIN d.val.members
         THEN [ok |-> TRUE, val |-> d.val.members[X4Datasets]]
         ELSE [ok |-> FALSE, err |-> "KeyError"]

(***************************************************************************)
(* The remote service: the datasets it holds and the body it sends, with   *)
(* the defects the repair is written for (omitted values, trailing commas, *)
(* stray control characters)                                               *)
(***************************************************************************)
MaxEntries == 1

K_enMin == <<"e", "n", "M", "i", "n">>
K_id == <<"i", "d">>
K_en_Max == <<"e", "n", "-", "M", "a", "x">>

Field(k, v, o) == [key |-> k, val |-> v, omit |-> o]

\* Fields by key; a value is present ("no") or omitted, bare or with a blank.
EnMinFields ==
    {Field(K_enMin, JNum(1), "no"), Field(K_enMin, JNull, "bare"),
     Field(K_enMin, JNull, "space")}
IdFields ==
    {Field(K_id, JStr(<<"a">>), "no"),
     Field(K_id, JStr(<<"N", ",", "}">>), "no"),
     Field(K_id, JStr(<<"k", Quote, ":", ",">>), "no")}
EnMaxFields == {Field(K_en_Max, JNull, "bare")}

FieldLists ==
    {<<f>> : f \in EnMaxFields \cup EnMinFields \cup IdFields}
      \cup {<<f, g>> : f \in EnMaxFields, g \in EnMinFields \cup IdFields}
      \cup {<<f, g>> : f \in EnMinFields, g \in IdFields}

\* An omitted value that ends its object is sent as "key":,} .
Entries ==
    {e \in [fields : FieldLists, trail : BOOLEAN] :
        e.fields[Len(e.fields)].omit # "no" => e.trail}

RECURSIVE SeqsUpTo(_, _)
SeqsUpTo(S, n) ==
    IF n = 0 THEN {<<>>}
    ELSE LET shorter == SeqsUpTo(S, n - 1) IN
         shorter \cup {Append(q, x) : q \in shorter, x \in S}

Docs ==
    {d \in [entries : SeqsUpTo(Entries, MaxEntries), trail : BOOLEAN,
            ctl : BOOLEAN] :
        d.entries = <<>> => ~d.trail}

DigitChar(n) ==
    CASE n = 0 -> "0" [] n = 1 -> "1" [] n = 2 -> "2" [] n = 3 -> "3"
      [] n = 4 -> "4" [] n = 5 -> "5" [] n = 6 -> "6" [] n = 7 -> "7"
      [] n = 8 -> "8" [] n = 9 -> "9"

RECURSIVE EscapeFrom(_, _)
EscapeFrom(s, i) ==
    IF i > Len(s) THEN <<>>
    ELSE (IF s[i] \in {Quote, Backslash} THEN <<Backslash, s[i]>> ELSE <<s[i]>>)
            \o EscapeFrom(s, i + 1)

RenderString(s) == <<Quote>> \o EscapeFrom(s, 1) \o <<Quote>>

\* Scalars only: the values of a dataset's fields.
RenderScalar(v) ==
    CASE v.t = "num" -> <<DigitChar(v.n)>>
      [] v.t = "str" -> RenderString(v.s)
      [] v.t = "null" -> <<"n", "u", "l", "l">>

\* What the service sends for a field (sent = TRUE): an omitted value is
\* nothing, or a blank.  With sent = FALSE, the field as it should read:
\* "key": null .
RenderField(f, sent) ==
    RenderString(f.key) \o <<":">> \o
       (CASE f.omit = "no" -> RenderScalar(f.val)
          [] f.omit = "bare" -> IF sent THEN <<>> ELSE NullText
          [] f.omit = "space" -> IF sent THEN <<" ">> ELSE NullText)

\* Items joined by commas; brk is the line break sent after a comma.
RECURSIVE Join(_, _, _)
Join(items, i, brk) ==
    IF i > Len(items) THEN <<>>
    ELSE items[i] \o (IF i < Len(items) THEN <<",">> \o brk ELSE <<>>)
            \o Join(items, i + 1, brk)

RenderEntry(e, sent, trail, brk) ==
    <<"{">> \o Join([i \in 1..Len(e.fields) |-> RenderField(e.fields[i], sent)],
                    1, brk)
            \o (IF trail /\ e.trail THEN <<",">> \o brk ELSE <<>>) \o <<"}">>

\* The text of a document.  sent: omitted values as the service sends them;
\* trail: with its trailing commas; ctl: with its line breaks.
RenderDoc(d, sent, trail, ctl) ==
    LET brk == IF ctl /\ d.ctl THEN <<"\n">> ELSE <<>> IN
    <<"{">> \o RenderString(X4Datasets) \o <<":", "[">>
       \o Join([i \in 1..Len(d.entries) |->
                   RenderEntry(d.entries[i], sent, trail, brk)], 1, brk)
       \o (IF trail /\ d.trail THEN <<",">> \o brk ELSE <<>>) \o <<"]", "}">>

\* The response body of the service for its document.
ResponseBody(d) == RenderDoc(d, TRUE, TRUE, TRUE)

\* The datasets of a document as values, an omitted value read as null.
EntryValue(e) ==
    JObj([k \in {e.fields[i].key : i \in 1..Len(e.fields)} |->
            (CHOOSE f \in {e.fields[i] : i \in 1..Len(e.fields)} : f.key = k).val])
DatasetsValue(d) == JArr([i \in 1..Len(d.entries) |-> EntryValue(d.entries[i])])
DocValue(d) == JObj([k \in {X4Datasets} |-> DatasetsValue(d)])

(***************************************************************************)
(* The fetcher: get_dataset_list and get_data, one action per statement    *)
(***************************************************************************)
Pending == [ok |-> FALSE, err |-> "pending"]

\* r.content.decode("ISO-8859-1", errors="replace"): one character per byte.
Decode(body) == body

\* The fetcher before a call; off: it takes no part in the run.
FetchStart(position) ==
    /\ fn = "none"
    /\ pc = position
    /\ text = <<>>
    /\ result = Pending

FetchOff == server = [entries |-> <<>>, trail |-> FALSE, ctl |-> FALSE] /\ FetchStart("off")

GetDatasetListRequest ==
    /\ pc = "idle"
    /\ fn' = "get_dataset_list"
    /\ text' = Decode(ResponseBody(server))
    /\ pc' = "decoded"
    /\ UNCHANGED <<server, result>>
    /\ UNCHANGED <<parseVars, aggVars>>

GetDataRequest ==
    /\ pc = "idle"
    /\ fn' = "get_data"
    /\ text' = Decode(ResponseBody(server))
    /\ pc' = "decoded"
    /\ UNCHANGED <<server, result>>
    /\ UNCHANGED <<parseVars, aggVars>>

StripControlStep ==
    /\ pc = "decoded"
    /\ text' = StripControl(text)
    /\ pc' = "stripped"
    /\ UNCHANGED <<server, fn, result>>
    /\ UNCHANGED <<parseVars, aggVars>>

FillNullStep ==
    /\ pc = "stripped"
    /\ text' = FillNull(text)
    /\ pc' = "filled"
    /\ UNCHANGED <<server, fn, result>>
    /\ UNCHANGED <<parseVars, aggVars>>

FixTrailingStep ==
    /\ pc = "filled"
    /\ text' = FixTrailing(text)
    /\ pc' = "fixed"
    /\ UNCHANGED <<server, fn, result>>
    /\ UNCHANGED <<parseVars, aggVars>>

ParseDatasetList ==
    /\ pc = "fixed"
    /\ fn = "get_dataset_list"
    /\ result' = LoadDatasetList(text)
    /\ pc' = "done"
    /\ UNCHANGED <<server, fn, text>>
    /\ UNCHANGED <<parseVars, aggVars>>

ParseData ==
    /\ pc = "fixed"
    /\ fn = "get_data"
    /\ result' = JsonLoads(text)
    /\ pc' = "done"
    /\ UNCHANGED <<server, fn, text>>
    /\ UNCHANGED <<parseVars, aggVars>>

FetchNext ==
    \/ GetDatasetListRequest
    \/ GetDataRequest
    \/ StripControlStep
    \/ FillNullStep
    \/ FixTrailingStep
    \/ ParseDatasetList
    \/ ParseData


(***************************************************************************)
(* Properties of the fetcher                                               *)
(***************************************************************************)
AllFields(d) ==
    UNION {{d.entries[i].fields[j] : j \in 1..Len(d.entries[i].fields)} :
              i \in 1..Len(d.entries)}

OmittedFields(d) == {f \in AllFields(d) : f.omit # "no"}

\* A key the null-fill pattern spells: letters, digits and underscores.
PlainKey(k) == Len(k) > 0 /\ \A i \in 1..Len(k) : k[i] \in KeyChars

OmittedKeysPlain(d) == \A f \in OmittedFields(d) : PlainKey(f.key)

TrailCount(d) ==
    (IF d.trail THEN 1 ELSE 0)
       + Cardinality({i \in 1..Len(d.entries) : d.entries[i].trail})

\* The text after step 2 when every omitted value reads ": null".
NullFilledText(d) == RenderDoc(d, FALSE, TRUE, FALSE)

\* C3 as stated: for every response text with fields of the form "k":, step 2
\* rewrites each of them to "k": null, and the text is valid JSON when the
\* omitted values were its only defect.
C3_Original ==
    pc = "filled" =>
        /\ text = NullFilledText(server)
        /\ TrailCount(server) = 0 => JsonLoads(text).ok

\* C3 (amended): for every response text whose omitted-value fields "k":, have
\* keys made of letters, digits and underscores only, step 2 rewrites each of
\* them to "k": null, and the text is then valid JSON, reading every omitted
\* value as null, when the omitted values were its only defect.
C3_NullFillPlainKeys ==
    (pc = "filled" /\ OmittedKeysPlain(server)) =>
        /\ text = NullFilledText(server)
        /\ TrailCount(server) = 0 =>
              JsonLoads(text) = [ok |-> TRUE, val |-> DocValue(server)]

\* A text with an omitted value as its only defect has passed step 2.
C3_Witness ==
    /\ pc = "filled"
    /\ OmittedFields(server) # {}
    /\ OmittedKeysPlain(server)
    /\ TrailCount(server) = 0
    /\ JsonLoads(text).ok

\* No string value of the document holds ",]" or ",}".
StringsAvoidClosers(d) ==
    \A f \in AllFields(d) :
        f.val.t = "str" =>
            /\ ~Contains(f.val.s, <<",", "]">>)
            /\ ~Contains(f.val.s, <<",", "}">>)

\* C4: for every JSON text with a single trailing comma before its closing
\* bracket or brace, step 3 removes exactly that comma and leaves every other
\* character, string contents included, unchanged.
C4_OnlyTrailingCommaRemoved ==
    (pc = "fixed" /\ OmittedKeysPlain(server) /\ TrailCount(server) = 1) =>
        text = RenderDoc(server, FALSE, FALSE, FALSE)

\* C8: for every body that is valid JSON apart from omitted values "key":,
\* and single trailing commas (control characters in between included),
\* get_dataset_list returns the array under x4Datasets that matches the
\* body's dataset entries, every omitted value read as null.
C8_ListMatchesBody ==
    (pc = "done" /\ fn = "get_dataset_list" /\ OmittedKeysPlain(server)) =>
        result = [ok |-> TRUE, val |-> DatasetsValue(server)]

\* The same two statements for the bodies whose strings hold no ",]" or ",}".
FixTrailingSafeStrings ==
    (pc = "fixed" /\ OmittedKeysPlain(server) /\ StringsAvoidClosers(server)) =>
        text = RenderDoc(server, FALSE, FALSE, FALSE)
ListMatchesSafeBody ==
    (pc = "done" /\ fn = "get_dataset_list" /\ OmittedKeysPlain(server)
       /\ StringsAvoidClosers(server)) =>
        result = [ok |-> TRUE, val |-> DatasetsValue(server)]

(***************************************************************************)
(* exfortables_parser.py: text helpers of parse_exfor_like_file            *)
(***************************************************************************)
\* str.strip / str.split whitespace on the characters of the model's alphabet.
PyWs == {" ", "\t", "\n", "\r", "\f"}

\* The last index <= i whose character is outside class, scanning leftwards.
RunStart(s, i, class) ==
    LET stops == {k \in 1..i : s[k] \notin class} IN
    IF stops = {} THEN 0 ELSE Max(stops)

LStrip(s, class) == SubSeq(s, RunEnd(s, 1, class), Len(s))
RStrip(s, class) == SubSeq(s, 1, RunStart(s, Len(s), class))
Strip(s) == RStrip(LStrip(s, PyWs), PyWs)

RECURSIVE SplitLinesFrom(_, _)
\* The lines from i on; a line ends at \n, \r, \r\n or \f, or with the text.
SplitLinesFrom(s, i) ==
    LET ends == {k \in i..Len(s) : s[k] \in {"\n", "\r", "\f"}} IN
    IF i > Len(s) THEN <<>>
    ELSE IF ends = {} THEN <<SubSeq(s, i, Len(s))>>
    ELSE LET k == Min(ends)
             crlf == s[k] = "\r" /\ k < Len(s) /\ s[k + 1] = "\n"
         IN  <<SubSeq(s, i, k - 1)>>
                \o SplitLinesFrom(s, IF crlf THEN k + 2 ELSE k + 1)

\* text.splitlines()
SplitLines(s) == SplitLinesFrom(s, 1)

RECURSIVE SplitFrom(_, _)
SplitFrom(s, i0) ==
    LET i == RunEnd(s, i0, PyWs) IN
    IF i > Len(s) THEN <<>>
    ELSE LET e == RunEnd(s, i, {s[k] : k \in 1..Len(s)} \ PyWs) IN
         <<SubSeq(s, i, e - 1)>> \o SplitFrom(s, e)

\* s.split(): the maximal runs of non-whitespace.
Split(s) == SplitFrom(s, 1)

RECURSIVE ReSplit2From(_, _)
\* The pieces from i on; a separator is a maximal run of two or more blanks.
ReSplit2From(s, i) ==
    LET seps == {k \in i..Len(s) :
                    /\ s[k] \in ReSpace
                    /\ (k = i \/ s[k - 1] \notin ReSpace)
                    /\ RunEnd(s, k, ReSpace) - k >= 2}
    IN  IF seps = {} THEN <<SubSeq(s, i, Len(s))>>
        ELSE <<SubSeq(s, i, Min(seps) - 1)>>
                \o ReSplit2From(s, RunEnd(s, Min(seps), ReSpace))

\* re.split(r"\s{2,}", s)
ReSplit2(s) == ReSplit2From(s, 1)

(***************************************************************************)
(* Header patterns (lines 10-12); IGNORECASE: a letter is a set of two     *)
(***************************************************************************)
NoneVal == [k |-> "none"]
IntVal(n) == [k |-> "int", n |-> n]

LabelZ == <<{"Z", "z"}, {":"}>>
LabelA == <<{"A", "a"}, {":"}>>
LabelMFMT == <<{"M", "m"}, {"F", "f"}, {"-"}, {"M", "m"}, {"T", "t"}>>
LabelNumber ==
    <<{"N", "n"}, {"U", "u"}, {"M", "m"}, {"B", "b"}, {"E", "e"}, {"R", "r"}, {":"}>>

\* The index after label matched at i, or 0.
LabelEnd(s, i, label) ==
    IF /\ i + Len(label) - 1 <= Len(s)
       /\ \A k \in 1..Len(label) : s[i + k - 1] \in label[k]
    THEN i + Len(label) ELSE 0

\* The index after \s*#\s* at the start of the line, or 0.
HashEnd(ln) ==
    LET h == RunEnd(ln, 1, ReSpace) IN
    IF h <= Len(ln) /\ ln[h] = "#" THEN RunEnd(ln, h + 1, ReSpace) ELSE 0

\* (\d+)\s*$ at i: the captured integer, or None.
TrailingInt(ln, i) ==
    LET d == RunEnd(ln, i, Digits) IN
    IF d > i /\ RunEnd(ln, d, ReSpace) > Len(ln)
    THEN IntVal(DigitsValue(ln, i, d, 0)) ELSE NoneVal

\* ^\s*#\s*<label>\s*(\d+)\s*$ : int(m.group(1)), or None when no match.
MatchLabelled(ln, label) ==
    LET h == HashEnd(ln) IN
    IF h = 0 THEN NoneVal
    ELSE LET l == LabelEnd(ln, h, label) IN
         IF l = 0 THEN NoneVal ELSE TrailingInt(ln, RunEnd(ln, l, ReSpace))

HEADER_Z_RE(ln) == MatchLabelled(ln, LabelZ)
HEADER_A_RE(ln) == MatchLabelled(ln, LabelA)

\* ^\s*#\s*MF-MT\s*number:\s*(\d+)\s*-\s*(\d+)\s*$ : int(m.group(2)), or None.
HEADER_MF_MT_RE(ln) ==
    LET h == HashEnd(ln) IN
    IF h = 0 THEN NoneVal
    ELSE LET l == LabelEnd(ln, h, LabelMFMT) IN
         IF l = 0 THEN NoneVal
         ELSE LET n == LabelEnd(ln, RunEnd(ln, l, ReSpace), LabelNumber) IN
              IF n = 0 THEN NoneVal
              ELSE LET b == RunEnd(ln, n, ReSpace)
                       d == RunEnd(ln, b, Digits)
                       m == RunEnd(ln, d, ReSpace)
                   IN  IF d > b /\ m <= Len(ln) /\ ln[m] = "-"
                       THEN TrailingInt(ln, RunEnd(ln, m + 1, ReSpace))
                       ELSE NoneVal

\* ln.lstrip().startswith("#")
IsComment(ln) ==
    LET h == RunEnd(ln, 1, PyWs) IN h <= Len(ln) /\ ln[h] = "#"

(***************************************************************************)
(* Column-header line (lines 56-67)                                        *)
(***************************************************************************)
E_in == <<"E", "_", "i", "n">>
XS == <<"X", "S">>

\* norm(tok), lines 61-65
norm(tok) ==
    LET t1 == Strip(tok)
        t2 == StrReplace(t1, <<"(">>, <<"_">>)
        t3 == StrReplace(t2, <<")">>, <<>>)
        t4 == StrReplace(t3, <<"/">>, <<"_", "p", "e", "r", "_">>)
        t5 == StrReplace(t4, <<"-">>, <<"_">>)
    IN  StrReplace(t5, <<"_", "_">>, <<"_">>)

\* "E_in" in ln and "XS" in ln
IsColumnHeader(ln) == Contains(ln, E_in) /\ Contains(ln, XS)

\* ln.lstrip("#").strip() split on two or more blanks
HeaderTokens(ln) == ReSplit2(Strip(LStrip(ln, {"#"})))

\* [norm(t) for t in tokens if t.strip()]
HeaderNames(ln) ==
    LET kept == SelectSeq(HeaderTokens(ln), LAMBDA t : Strip(t) # <<>>) IN
    [i \in 1..Len(kept) |-> norm(kept[i])]

(***************************************************************************)
(* float(x): a decimal literal as mantissa * 10^exponent in lowest terms,  *)
(* or nan; anything else is a ValueError                                   *)
(***************************************************************************)
NaN == [k |-> "nan"]
FloatVal(m, e) == [k |-> "float", m |-> m, e |-> e]

RECURSIVE Normalize(_, _)
Normalize(m, e) ==
    IF m = 0 THEN FloatVal(0, 0)
    ELSE IF m % 10 = 0 THEN Normalize(m \div 10, e + 1)
    ELSE FloatVal(m, e)

IsNanWord(s, i) ==
    /\ Len(s) = i + 2
    /\ s[i] \in {"n", "N"} /\ s[i + 1] \in {"a", "A"} /\ s[i + 2] \in {"n", "N"}

\* [+-]? (digits [. digits*] | . digits) ([eE] [+-]? digits)?  or  [+-]? nan
FloatOf(tok) ==
    LET signed == Len(tok) >= 1 /\ tok[1] \in {"+", "-"}
        sgn == IF signed /\ tok[1] = "-" THEN -1 ELSE 1
        b == IF signed THEN 2 ELSE 1
        ie == RunEnd(tok, b, Digits)
        dot == ie <= Len(tok) /\ tok[ie] = "."
        fb == IF dot THEN ie + 1 ELSE ie
        fe == IF dot THEN RunEnd(tok, fb, Digits) ELSE ie
        hasExp == fe <= Len(tok) /\ tok[fe] \in {"e", "E"}
        xsigned == hasExp /\ fe + 1 <= Len(tok) /\ tok[fe + 1] \in {"+", "-"}
        xsgn == IF xsigned /\ tok[fe + 1] = "-" THEN -1 ELSE 1
        xb == IF xsigned THEN fe + 2 ELSE fe + 1
        xe == IF hasExp THEN RunEnd(tok, xb, Digits) ELSE fe
        mant == DigitsValue(tok, b, ie, 0)
        frac == DigitsValue(tok, fb, fe, 0)
        scale == fe - fb
        expo == IF hasExp THEN xsgn * DigitsValue(tok, xb, xe, 0) ELSE 0
    IN  IF IsNanWord(tok, b) THEN [ok |-> TRUE, val |-> NaN]
        ELSE IF /\ (ie - b) + scale >= 1
                /\ (hasExp => xe > xb)
                /\ xe > Len(tok)
             THEN [ok |-> TRUE,
                   val |-> Normalize(sgn * (mant * 10 ^ scale + frac), expo - scale)]
             ELSE [ok |-> FALSE, val |-> NaN]

(***************************************************************************)
(* parse_exfor_like_file: the two passes over the lines                    *)
(***************************************************************************)
Meta(zv, av, mtv, names) == [z |-> zv, a |-> av, mt |-> mtv, colnames |-> names]

\* The loop body keeping the first value found for Z, A and MT instead of
\* the last.
HeaderStep_FirstWins(m, ln) ==
    IF ~IsComment(ln) THEN m
    ELSE IF HEADER_Z_RE(ln) # NoneVal
         THEN (IF m.z = NoneVal THEN [m EXCEPT !.z = HEADER_Z_RE(ln)] ELSE m)
    ELSE IF HEADER_A_RE(ln) # NoneVal
         THEN (IF m.a = NoneVal THEN [m EXCEPT !.a = HEADER_A_RE(ln)] ELSE m)
    ELSE IF HEADER_MF_MT_RE(ln) # NoneVal
         THEN (IF m.mt = NoneVal THEN [m EXCEPT !.mt = HEADER_MF_MT_RE(ln)] ELSE m)
    ELSE IF IsColumnHeader(ln)
         THEN [m EXCEPT !.colnames = [k |-> "list", names |-> HeaderNames(ln)]]
    ELSE m

\* One iteration of the loop of lines 34-67 on the values found so far;
\* colnames is None (NoneVal) or a list of names.
HeaderStep(m, ln) ==
    IF ~IsComment(ln) THEN m
    ELSE IF HEADER_Z_RE(ln) # NoneVal THEN [m EXCEPT !.z = HEADER_Z_RE(ln)]
    ELSE IF HEADER_A_RE(ln) # NoneVal THEN [m EXCEPT !.a = HEADER_A_RE(ln)]
    ELSE IF HEADER_MF_MT_RE(ln) # NoneVal THEN [m EXCEPT !.mt = HEADER_MF_MT_RE(ln)]
    ELSE IF IsColumnHeader(ln)
         THEN [m EXCEPT !.colnames = [k |-> "list", names |-> HeaderNames(ln)]]
    ELSE m

RECURSIVE HeaderFrom(_, _, _)
HeaderFrom(ls, i, m) ==
    IF i > Len(ls) THEN m
    ELSE HeaderFrom(ls, i + 1, HeaderStep(m, ls[i]))

\* Lines 27-67: z, a, mt and colnames after the header pass.
HeaderPass(ls) == HeaderFrom(ls, 1, Meta(NoneVal, NoneVal, NoneVal, NoneVal))

\* The try/except around each token instead of around the line: the tokens
\* that are floats make a row.
DataRow_Salvage(ln) ==
    LET s == Strip(ln)
        good == SelectSeq(Split(s), LAMBDA t : FloatOf(t).ok)
    IN  IF s = <<>> \/ s[1] = "#" \/ good = <<>> THEN [ok |-> FALSE, nums |-> <<>>]
        ELSE [ok |-> TRUE, nums |-> [i \in 1..Len(good) |-> FloatOf(good[i]).val]]

\* Lines 72-81 for one line: the row of floats, or no row.
DataRow(ln) ==
    LET s == Strip(ln)
        parts == Split(s)
    IN  IF s = <<>> \/ s[1] = "#" THEN [ok |-> FALSE, nums |-> <<>>]
        ELSE IF \E i \in 1..Len(parts) : ~FloatOf(parts[i]).ok
             THEN [ok |-> FALSE, nums |-> <<>>]
             ELSE [ok |-> TRUE,
                   nums |-> [i \in 1..Len(parts) |-> FloatOf(parts[i]).val]]

RECURSIVE DataFrom(_, _)
DataFrom(ls, i) ==
    IF i > Len(ls) THEN <<>>
    ELSE (IF DataRow(ls[i]).ok THEN <<DataRow(ls[i]).nums>> ELSE <<>>)
            \o DataFrom(ls, i + 1)

\* Lines 70-81: data_rows after the data pass.
DataPass(ls) == DataFrom(ls, 1)

\* [float("nan")] * n
NaNs(n) == [i \in 1..n |-> NaN]

\* The padding put before the values of a short row instead of after them.
PadRows_Front(rows) ==
    IF \E i \in 1..Len(rows) : Len(rows[i]) # Len(rows[1])
    THEN LET maxc == Max({Len(rows[i]) : i \in 1..Len(rows)}) IN
         [i \in 1..Len(rows) |-> NaNs(maxc - Len(rows[i])) \o rows[i]]
    ELSE rows

\* Lines 88-93: the rows, padded when ragged.
PadRows(rows) ==
    IF \E i \in 1..Len(rows) : Len(rows[i]) # Len(rows[1])
    THEN LET maxc == Max({Len(rows[i]) : i \in 1..Len(rows)}) IN
         [i \in 1..Len(rows) |-> rows[i] \o NaNs(maxc - Len(rows[i]))]
    ELSE rows

\* ncols after lines 88-93
NCols(rows) ==
    IF \E i \in 1..Len(rows) : Len(rows[i]) # Len(rows[1])
    THEN Max({Len(rows[i]) : i \in 1..Len(rows)})
    ELSE Len(rows[1])

(***************************************************************************)
(* pandas.DataFrame: the column labels and the rows, each row aligned to   *)
(* the labels                                                              *)
(***************************************************************************)
Frame(columns, rows) == [columns |-> columns, rows |-> rows]

StrVal(s) == [k |-> "str", s |-> s]

\* df[name] = v : every column labelled name is overwritten, else one is added.
SetColumn(d, name, v) ==
    IF \E c \in 1..Len(d.columns) : d.columns[c] = name
    THEN Frame(d.columns,
               [r \in 1..Len(d.rows) |->
                   [c \in 1..Len(d.columns) |->
                       IF d.columns[c] = name THEN v ELSE d.rows[r][c]]])
    ELSE Frame(Append(d.columns, name),
               [r \in 1..Len(d.rows) |-> Append(d.rows[r], v)])

\* df.empty
IsEmptyFrame(d) == Len(d.rows) = 0 \/ Len(d.columns) = 0

N_E_in_MeV == <<"E", "_", "i", "n", "_", "M", "e", "V">>
N_dE_in_MeV == <<"d", "E", "_", "i", "n", "_", "M", "e", "V">>
N_XS_b == <<"X", "S", "_", "b">>
N_dXS_b == <<"d", "X", "S", "_", "b">>
N_nuclide == <<"n", "u", "c", "l", "i", "d", "e">>
N_Z == <<"Z">>
N_A == <<"A">>
N_MT == <<"M", "T">>
N_source_file == <<"s", "o", "u", "r", "c", "e", "_", "f", "i", "l", "e">>

RECURSIVE IntToChars(_)
\* str(i) of a natural number
IntToChars(n) ==
    IF n < 10 THEN <<DigitChar(n)>>
    ELSE Append(IntToChars(n \div 10), DigitChar(n % 10))

\* Line 85: the columns of the result of a file without data rows.
EmptyParseColumns ==
    <<N_E_in_MeV, N_XS_b, N_nuclide, N_Z, N_A, N_MT, N_source_file>>

\* Line 102
DefaultNames == <<N_E_in_MeV, N_dE_in_MeV, N_XS_b, N_dXS_b>>

\* The header names taken whenever there are any, whatever their count.
ColumnNames_AnyCount(names, n) ==
    IF names # NoneVal /\ Len(names.names) > 0
    THEN names.names
    ELSE SubSeq(DefaultNames, 1,
                IF n < Len(DefaultNames) THEN n ELSE Len(DefaultNames))
            \o [j \in 1..(n - Len(DefaultNames)) |->
                   <<"c", "o", "l", "_">> \o IntToChars(Len(DefaultNames) + j - 1)]

\* Lines 98-103: the labels of the ncols data columns.
ColumnNames(names, n) ==
    IF names # NoneVal /\ Len(names.names) > 0
          /\ Len(names.names) = n
    THEN names.names
    ELSE SubSeq(DefaultNames, 1,
                IF n < Len(DefaultNames) THEN n ELSE Len(DefaultNames))
            \o [j \in 1..(n - Len(DefaultNames)) |->
                   <<"c", "o", "l", "_">> \o IntToChars(Len(DefaultNames) + j - 1)]

\* Lines 106-109
AttachMeta(d, m, path) ==
    SetColumn(SetColumn(SetColumn(SetColumn(d, N_Z, m.z), N_A, m.a), N_MT, m.mt),
              N_source_file, StrVal(path))

\* parse_exfor_like_file(fp) for a file at path with the given text.
ParseExforLikeFile(path, content) ==
    LET ls == SplitLines(content)
        m == HeaderPass(ls)
        rows == DataPass(ls)
    IN  IF rows = <<>> THEN Frame(EmptyParseColumns, <<>>)
        ELSE AttachMeta(Frame(ColumnNames(m.colnames, NCols(rows)), PadRows(rows)),
                        m, path)

(***************************************************************************)
(* The files parse_exfor_like_file is run on                               *)
(***************************************************************************)
MaxLines == 3

L_Z92 == <<"#", " ", "Z", ":", " ", "9", "2">>
L_z8 == <<" ", "#", "z", ":", "8", " ">>
L_A235 == <<"#", " ", "A", ":", " ", "2", "3", "5">>
L_MT1 == <<"#", " ", "M", "F", "-", "M", "T", " ", "n", "u", "m", "b", "e",
    "r", ":", " ", "3", "-", "1">>
L_Header2 == <<"#", " ", " ", " ", "E", "_", "i", "n", "(", "M", "e", "V",
    ")", " ", " ", " ", "X", "S", "(", "B", ")">>
L_Header3 == <<"#", " ", " ", "E", "_", "i", "n", "_", "-", "(", "M", "e",
    "V", ")", " ", " ", "d", "E", " ", " ", "X", "S", "(", "b", "/", "s",
    "r", ")">>
L_Row2 == <<"1", ".", "0", " ", "2", ".", "5">>
L_Row3 == <<"2", " ", "3", ".", "1", " ", ".", "5">>
L_Row5 == <<"1", " ", "2", " ", "3", " ", "4", " ", "5">>
L_Blank == <<>>
L_BadRow == <<"1", ".", "0", " ", "M", "e", "V">>

LinePool ==
    {L_Z92, L_z8, L_A235, L_MT1, L_Header2, L_Header3,
     L_Row2, L_Row3, L_Row5, L_BadRow, L_Blank}

RECURSIVE JoinLines(_, _)
\* The text of a file: each line with its line end.
JoinLines(ls, i) ==
    IF i > Len(ls) THEN <<>> ELSE ls[i] \o <<"\n">> \o JoinLines(ls, i + 1)

FileTexts == {JoinLines(ls, 1) : ls \in SeqsUpTo(LinePool, MaxLines)}

(***************************************************************************)
(* parse_exfor_like_file, one action per block of the function             *)
(***************************************************************************)
\* The path of the file parsed on its own.
ParsePath == <<"r", "u", "n", "1", ".", "t", "x", "t">>

ParseStart(position) ==
    /\ fp = ParsePath
    /\ lines = <<>>
    /\ z = NoneVal /\ a = NoneVal /\ mt = NoneVal /\ colnames = NoneVal
    /\ data_rows = <<>>
    /\ ncols = 0
    /\ df = Frame(<<>>, <<>>)
    /\ ppc = position

ParseOff == file = <<>> /\ ParseStart("off")

\* Lines 23-24
ReadLines ==
    /\ ppc = "start"
    /\ lines' = SplitLines(file)
    /\ ppc' = "header"
    /\ UNCHANGED <<fp, file, z, a, mt, colnames, data_rows, ncols, df>>
    /\ UNCHANGED <<fetchVars, aggVars>>

\* Lines 26-67
ExtractHeader ==
    /\ ppc = "header"
    /\ LET m == HeaderPass(lines) IN
          /\ z' = m.z
          /\ a' = m.a
          /\ mt' = m.mt
          /\ colnames' = m.colnames
    /\ ppc' = "data"
    /\ UNCHANGED <<fp, file, lines, data_rows, ncols, df>>
    /\ UNCHANGED <<fetchVars, aggVars>>

\* Lines 69-81
ReadNumericBlock ==
    /\ ppc = "data"
    /\ data_rows' = DataPass(lines)
    /\ ppc' = "rows"
    /\ UNCHANGED <<fp, file, lines, z, a, mt, colnames, ncols, df>>
    /\ UNCHANGED <<fetchVars, aggVars>>

\* Lines 83-86
ReturnEmpty ==
    /\ ppc = "rows"
    /\ data_rows = <<>>
    /\ df' = Frame(EmptyParseColumns, <<>>)
    /\ ppc' = "done"
    /\ UNCHANGED <<fp, file, lines, z, a, mt, colnames, data_rows, ncols>>
    /\ UNCHANGED <<fetchVars, aggVars>>

\* Lines 88-93
PadRagged ==
    /\ ppc = "rows"
    /\ data_rows # <<>>
    /\ data_rows' = PadRows(data_rows)
    /\ ncols' = NCols(data_rows)
    /\ ppc' = "padded"
    /\ UNCHANGED <<fp, file, lines, z, a, mt, colnames, df>>
    /\ UNCHANGED <<fetchVars, aggVars>>

\* Lines 95-103
BuildFrame ==
    /\ ppc = "padded"
    /\ df' = Frame(ColumnNames(colnames, ncols), data_rows)
    /\ ppc' = "framed"
    /\ UNCHANGED <<fp, file, lines, z, a, mt, colnames, data_rows, ncols>>
    /\ UNCHANGED <<fetchVars, aggVars>>

\* Lines 105-111
AttachMetadata ==
    /\ ppc = "framed"
    /\ df' = AttachMeta(df, Meta(z, a, mt, colnames), fp)
    /\ ppc' = "done"
    /\ UNCHANGED <<fp, file, lines, z, a, mt, colnames, data_rows, ncols>>
    /\ UNCHANGED <<fetchVars, aggVars>>

(***************************************************************************)
(* The directory tree under root: its regular files by their path below    *)
(* root, a path being its components                                       *)
(***************************************************************************)
MaxFiles == 2

D_U235 == <<"U", "2", "3", "5">>
D_Pu239 == <<"P", "u", "2", "3", "9">>
D_weird == <<"w", "e", "i", "r", "d">>
D_n_inl == <<"n", "_", "i", "n", "l">>
D_n_f == <<"n", "_", "f">>
D_xs == <<"x", "s">>
D_xs_old == <<"x", "s", "_", "o", "l", "d">>
D_sub == <<"s", "u", "b">>
D_a == <<"a">>
D_b == <<"b">>
D_run1_txt == <<"r", "u", "n", "1", ".", "t", "x", "t">>
D_f_txt == <<"f", ".", "t", "x", "t">>
D_run1_dat == <<"r", "u", "n", "1", ".", "d", "a", "t">>

P_run1 == <<D_U235, D_n_inl, D_xs, D_run1_txt>>
P_deep == <<D_U235, D_n_inl, D_xs, D_sub, D_f_txt>>
P_other == <<D_Pu239, D_n_f, D_xs, D_f_txt>>
P_weird == <<D_weird, D_f_txt>>
P_dat == <<D_U235, D_n_inl, D_xs, D_run1_dat>>
P_shallow == <<D_U235, D_xs, D_run1_txt>>
P_xs_old == <<D_Pu239, D_n_f, D_xs_old, D_f_txt>>
P_late_xs == <<D_weird, D_a, D_b, D_xs, D_f_txt>>

CandidatePaths ==
    {P_run1, P_deep, P_other, P_weird, P_dat, P_shallow, P_xs_old, P_late_xs}

\* Texts of files: two columns with a header, three ragged columns, no data.
FileWithHeader == JoinLines(<<L_Z92, L_Header2, L_Row2>>, 1)
FileRagged == JoinLines(<<L_Row3, L_Row2>>, 1)
FileNoData == JoinLines(<<L_A235, L_BadRow>>, 1)
FileContents == {FileWithHeader, FileRagged, FileNoData}

Trees ==
    UNION {[ps -> FileContents] :
              ps \in {q \in SUBSET CandidatePaths : Cardinality(q) <= MaxFiles}}

RootDir == <<"r", "o", "o", "t">>

RECURSIVE PathChars(_, _)
PathChars(path, i) ==
    IF i > Len(path) THEN <<>> ELSE <<"/">> \o path[i] \o PathChars(path, i + 1)

\* str(fp) of root / path
PathStr(path) == RootDir \o PathChars(path, 1)

(***************************************************************************)
(* root.glob("*/*/xs/**/*.txt")                                            *)
(***************************************************************************)
RECURSIVE FnMatchFrom(_, _, _, _)
\* fnmatch of one component: * is any run of characters.
FnMatchFrom(name, i, pat, j) ==
    IF j > Len(pat) THEN i > Len(name)
    ELSE IF pat[j] = "*"
         THEN \E k \in i..(Len(name) + 1) : FnMatchFrom(name, k, pat, j + 1)
    ELSE i <= Len(name) /\ name[i] = pat[j] /\ FnMatchFrom(name, i + 1, pat, j + 1)

FnMatch(name, pat) == FnMatchFrom(name, 1, pat, 1)

Star == <<"*">>
StarStar == <<"*", "*">>

\* The pattern of the comment on line 123, "*/*/xs/*.txt", which stops at the
\* files directly in xs.
GlobPattern_Flat == <<Star, Star, <<"x", "s">>, <<"*", ".", "t", "x", "t">>>>

\* Line 124
GlobPattern == <<Star, Star, <<"x", "s">>, StarStar, <<"*", ".", "t", "x", "t">>>>

RECURSIVE GlobFrom(_, _, _, _)
\* ** is any run of directories, none included.
GlobFrom(path, i, pat, j) ==
    IF j > Len(pat) THEN i > Len(path)
    ELSE IF pat[j] = StarStar
         THEN \E k \in i..(Len(path) + 1) : GlobFrom(path, k, pat, j + 1)
    ELSE i <= Len(path) /\ FnMatch(path[i], pat[j])
            /\ GlobFrom(path, i + 1, pat, j + 1)

GlobMatches(path) == GlobFrom(path, 1, GlobPattern, 1)

(***************************************************************************)
(* pd.concat and the column order of build_big_dataframe                   *)
(***************************************************************************)
IndexOf(seq, x) == CHOOSE i \in 1..Len(seq) : seq[i] = x
InSeq(seq, x) == \E i \in 1..Len(seq) : seq[i] = x

RECURSIVE UnionColumns(_, _, _)
\* The labels of the frames in the order first seen.
UnionColumns(dfs, i, acc) ==
    IF i > Len(dfs) THEN acc
    ELSE UnionColumns(dfs, i + 1,
            acc \o SelectSeq(dfs[i].columns, LAMBDA c : ~InSeq(acc, c)))

\* A frame's rows aligned to the labels cols, NaN where it has no such column.
Reindex(d, cols) ==
    [r \in 1..Len(d.rows) |->
        [c \in 1..Len(cols) |->
            IF InSeq(d.columns, cols[c])
            THEN d.rows[r][IndexOf(d.columns, cols[c])] ELSE NaN]]

RECURSIVE ConcatRows(_, _, _)
ConcatRows(dfs, i, cols) ==
    IF i > Len(dfs) THEN <<>>
    ELSE Reindex(dfs[i], cols) \o ConcatRows(dfs, i + 1, cols)

\* pd.concat(all_dfs, join="inner"): the columns all frames share.
Concat_Inner(dfs) ==
    LET cols == SelectSeq(dfs[1].columns,
                          LAMBDA c : \A i \in 1..Len(dfs) : InSeq(dfs[i].columns, c))
    IN  Frame(cols, ConcatRows(dfs, 1, cols))

\* pd.concat(all_dfs, ignore_index=True)
Concat(dfs) ==
    LET cols == UnionColumns(dfs, 1, <<>>) IN Frame(cols, ConcatRows(dfs, 1, cols))

\* Line 147
Preferred ==
    <<N_nuclide, N_Z, N_A, N_MT, N_E_in_MeV, N_XS_b, N_dE_in_MeV, N_dXS_b,
      N_source_file>>

\* Lines 148-149
PreferredFirst(d) ==
    LET cols == SelectSeq(Preferred, LAMBDA c : InSeq(d.columns, c))
                   \o SelectSeq(d.columns, LAMBDA c : ~InSeq(Preferred, c))
    IN  Frame(cols, Reindex(d, cols))

\* Line 137
EmptyBigColumns ==
    <<N_nuclide, N_Z, N_A, N_MT, N_E_in_MeV, N_XS_b, N_source_file>>

(***************************************************************************)
(* build_big_dataframe                                                     *)
(***************************************************************************)
AggStart(position) ==
    /\ todo = {}
    /\ visited = {}
    /\ all_dfs = <<>>
    /\ big = Frame(<<>>, <<>>)
    /\ apc = position

AggOff == fs = <<>> /\ AggStart("off")

\* Line 124: the files the glob will yield.
StartGlob ==
    /\ apc = "start"
    /\ todo' = {path \in DOMAIN fs : GlobMatches(path)}
    /\ apc' = "loop"
    /\ UNCHANGED <<fs, visited, all_dfs, big>>
    /\ UNCHANGED <<fetchVars, parseVars>>

\* Lines 124-134 for a file with rows; the glob yields in any order.
VisitFile ==
    /\ apc = "loop"
    /\ \E path \in todo :
          LET nuclide == path[1]
              parsed == ParseExforLikeFile(PathStr(path), fs[path])
          IN  /\ ~IsEmptyFrame(parsed)
              /\ all_dfs' = Append(all_dfs, SetColumn(parsed, N_nuclide, StrVal(nuclide)))
              /\ todo' = todo \ {path}
              /\ visited' = visited \cup {path}
    /\ UNCHANGED <<fs, big, apc>>
    /\ UNCHANGED <<fetchVars, parseVars>>

\* Lines 124-132 for a file that parses to an empty frame.
VisitEmptyFile ==
    /\ apc = "loop"
    /\ \E path \in todo :
          /\ IsEmptyFrame(ParseExforLikeFile(PathStr(path), fs[path]))
          /\ todo' = todo \ {path}
          /\ visited' = visited \cup {path}
    /\ UNCHANGED <<fs, all_dfs, big, apc>>
    /\ UNCHANGED <<fetchVars, parseVars>>

\* Lines 136-137
ReturnEmptyBig ==
    /\ apc = "loop"
    /\ todo = {}
    /\ all_dfs = <<>>
    /\ big' = Frame(EmptyBigColumns, <<>>)
    /\ apc' = "done"
    /\ UNCHANGED <<fs, todo, visited, all_dfs>>
    /\ UNCHANGED <<fetchVars, parseVars>>

\* Lines 139-151
ConcatAll ==
    /\ apc = "loop"
    /\ todo = {}
    /\ all_dfs # <<>>
    /\ big' = PreferredFirst(Concat(all_dfs))
    /\ apc' = "done"
    /\ UNCHANGED <<fs, todo, visited, all_dfs>>
    /\ UNCHANGED <<fetchVars, parseVars>>

(***************************************************************************)
(* Specifications: one per entry point                                     *)
(***************************************************************************)
FetchInit == server \in Docs /\ FetchStart("idle") /\ ParseOff /\ AggOff

FetchSpec == FetchInit /\ [][FetchNext]_vars

ParseInit == file \in FileTexts /\ ParseStart("start") /\ FetchOff /\ AggOff

ParseNext ==
    \/ ReadLines
    \/ ExtractHeader
    \/ ReadNumericBlock
    \/ ReturnEmpty
    \/ PadRagged
    \/ BuildFrame
    \/ AttachMetadata

ParseSpec == ParseInit /\ [][ParseNext]_vars

AggInit == fs \in Trees /\ AggStart("start") /\ FetchOff /\ ParseOff

AggNext ==
    \/ StartGlob
    \/ VisitFile
    \/ VisitEmptyFile
    \/ ReturnEmptyBig
    \/ ConcatAll

AggSpec == AggInit /\ [][AggNext]_vars

(***************************************************************************)
(* Properties of parse_exfor_like_file                                     *)
(***************************************************************************)
\* The lines of the file as written, without their line ends.
FileLines == SplitLines(file)

\* A line that is not blank, not a comment, and whose tokens are all floats.
IsValidDataLine(ln) ==
    /\ Strip(ln) # <<>>
    /\ ~IsComment(ln)
    /\ \A i \in 1..Len(Split(ln)) : FloatOf(Split(ln)[i]).ok

ValidDataLines == SelectSeq(FileLines, IsValidDataLine)

\* The floats of a line's tokens, in order.
ValuesOf(ln) == [i \in 1..Len(Split(ln)) |-> FloatOf(Split(ln)[i]).val]

MetadataNames == {N_Z, N_A, N_MT, N_nuclide, N_source_file}

ColumnSet(d) == {d.columns[i] : i \in 1..Len(d.columns)}

\* C1 as stated: a file without a valid data line parses to zero rows and to
\* the canonical columns, none of them a metadata column (Z, A, MT, nuclide,
\* source file).
C1_Original ==
    (ppc = "done" /\ ValidDataLines = <<>>) =>
        /\ df.rows = <<>>
        /\ ColumnSet(df) \cap MetadataNames = {}

\* C1 (amended): a file without a valid data line parses to zero rows under
\* the fixed columns E_in_MeV, XS_b, nuclide, Z, A, MT, source_file, whatever
\* its header lines hold; the metadata columns are there and hold no value.
C1_EmptyResultCanonicalColumns ==
    (ppc = "done" /\ ValidDataLines = <<>>) =>
        df = Frame(<<N_E_in_MeV, N_XS_b, N_nuclide, N_Z, N_A, N_MT, N_source_file>>,
                   <<>>)

\* A file with header lines and a line that is no data line has been parsed.
C1_Witness ==
    /\ ppc = "done"
    /\ ValidDataLines = <<>>
    /\ z # NoneVal
    /\ colnames # NoneVal
    /\ \E i \in 1..Len(lines) : lines[i] = L_BadRow

\* The token counts of the valid data lines, in file order.
Widths(valid) == [i \in 1..Len(valid) |-> Len(Split(valid[i]))]

IsRagged(w) == \E i, j \in 1..Len(w) : w[i] # w[j]

\* C2: the rows after padding are the valid data lines in file order, each of
\* the greatest width, its own values first and NaN after them; none is lost,
\* and the table returned has these rows.
C2_RaggedRowsPadded ==
    ppc \in {"padded", "done"} =>
        LET valid == ValidDataLines
            w == Widths(valid)
            maxw == Max({w[i] : i \in 1..Len(w)})
        IN  IsRagged(w) =>
              /\ Len(data_rows) = Len(valid)
              /\ ncols = maxw
              /\ \A i \in 1..Len(valid) :
                    /\ Len(data_rows[i]) = maxw
                    /\ SubSeq(data_rows[i], 1, w[i]) = ValuesOf(valid[i])
                    /\ \A j \in (w[i] + 1)..maxw : data_rows[i][j] = NaN
              /\ ppc = "done" =>
                    /\ Len(df.rows) = Len(valid)
                    /\ \A i \in 1..Len(valid) :
                          SubSeq(df.rows[i], 1, maxw) = data_rows[i]

\* Three data lines of token counts 2, 3, 3 have been padded and returned.
C2_Witness ==
    /\ ppc = "done"
    /\ Widths(ValidDataLines) = <<2, 3, 3>>
    /\ data_rows[1][3] = NaN
    /\ Len(df.rows) = 3

\* The header-derived names, when the file has a column-header line.
Extracted == colnames # NoneVal /\ colnames.names # <<>>

\* The labels of the data columns of the table returned.
DataColumns == SubSeq(df.columns, 1, ncols)

\* C5: the ncols data columns carry the header-derived names exactly when
\* names were extracted and there are ncols of them; otherwise they carry the
\* first ncols of E_in_MeV, dE_in_MeV, XS_b, dXS_b, col_4, ...; either way
\* ncols labels are assigned.
C5_ColumnNaming ==
    (ppc = "done" /\ df.rows # <<>>) =>
        /\ Len(df.columns) = ncols + 4
        /\ (Extracted /\ Len(colnames.names) = ncols) => DataColumns = colnames.names
        /\ ~(Extracted /\ Len(colnames.names) = ncols) =>
              \A c \in 1..ncols :
                  DataColumns[c] =
                      CASE c = 1 -> N_E_in_MeV
                        [] c = 2 -> N_dE_in_MeV
                        [] c = 3 -> N_XS_b
                        [] c = 4 -> N_dXS_b
                        [] OTHER -> <<"c", "o", "l", "_">> \o IntToChars(c - 1)

\* Five data columns were named by default although a header gave two names.
C5_Witness ==
    /\ ppc = "done"
    /\ ncols = 5
    /\ Extracted
    /\ Len(colnames.names) = 2
    /\ df.columns[5] = <<"c", "o", "l", "_", "4">>

\* Header names were used verbatim for the data columns.
C5_WitnessHeaderNames ==
    /\ ppc = "done"
    /\ df.rows # <<>>
    /\ Extracted
    /\ Len(colnames.names) = ncols
    /\ DataColumns # SubSeq(DefaultNames, 1, ncols)

HasDoubledUnderscore(name) == Contains(name, <<"_", "_">>)

NormalizedNamesNoPunctuation ==
    (ppc # "start" /\ ppc # "header" /\ colnames # NoneVal) =>
        \A i \in 1..Len(colnames.names) :
            \A c \in 1..Len(colnames.names[i]) :
                colnames.names[i][c] \notin {"(", ")", "/", "-"}

\* The comment lines of the file, in file order.
CommentLines == SelectSeq(FileLines, IsComment)

\* The value captured by the last of the lines that the pattern matches, or
\* None when it matches none.
LastCapture(ls, Pattern(_)) ==
    LET hits == {i \in 1..Len(ls) : Pattern(ls[i]) # NoneVal} IN
    IF hits = {} THEN NoneVal ELSE Pattern(ls[Max(hits)])

\* C10: every row of a non-empty result holds in Z, A and MT the integer of
\* the last comment line matching the pattern, or None when there is none,
\* wherever the data lines stand among the header lines.
C10_LastHeaderWins ==
    (ppc = "done" /\ df.rows # <<>>) =>
        LET cl == CommentLines
            zc == IndexOf(df.columns, N_Z)
            ac == IndexOf(df.columns, N_A)
            mc == IndexOf(df.columns, N_MT)
        IN  \A r \in 1..Len(df.rows) :
              /\ df.rows[r][zc] = LastCapture(cl, HEADER_Z_RE)
              /\ df.rows[r][ac] = LastCapture(cl, HEADER_A_RE)
              /\ df.rows[r][mc] = LastCapture(cl, HEADER_MF_MT_RE)

\* Z was given as 92 before the data line and as 8 after it; the row has 8.
C10_Witness ==
    /\ ppc = "done"
    /\ lines = <<L_Z92, L_Row2, L_z8>>
    /\ Len(df.rows) = 1
    /\ df.rows[1][IndexOf(df.columns, N_Z)] = IntVal(8)

\* MT was taken from an MF-MT line standing after the data line.
C10_WitnessMT ==
    /\ ppc = "done"
    /\ lines = <<L_Row3, L_MT1>>
    /\ df.rows[1][IndexOf(df.columns, N_MT)] = IntVal(1)

(***************************************************************************)
(* Properties of build_big_dataframe                                       *)
(***************************************************************************)
\* name.endswith(".txt")
EndsWithTxt(name) ==
    /\ Len(name) >= 4
    /\ SubSeq(name, Len(name) - 3, Len(name)) = <<".", "t", "x", "t">>

\* <nuclide>/<reaction>/xs/**/<anything>.txt below root
HasXsShape(path) ==
    /\ Len(path) >= 4
    /\ path[3] = D_xs
    /\ EndsWithTxt(path[Len(path)])

\* The cell of row r of a frame under the label name.
Cell(d, r, name) == d.rows[r][IndexOf(d.columns, name)]

\* The file of the tree a row came from, by its source_file cell.
SourcesOf(d, r) == {path \in DOMAIN fs : Cell(d, r, N_source_file) = StrVal(PathStr(path))}

\* C6: the files visited are exactly those of the shape
\* <nuclide>/<reaction>/xs/**/<anything>.txt; every row collected comes from
\* such a file and is labelled with that file's first path component.
C6_VisitsXsShape ==
    /\ apc \in {"loop", "done"} =>
          /\ todo \cup visited = {path \in DOMAIN fs : HasXsShape(path)}
          /\ \A i \in 1..Len(all_dfs) : \A r \in 1..Len(all_dfs[i].rows) :
                /\ SourcesOf(all_dfs[i], r) # {}
                /\ \A path \in SourcesOf(all_dfs[i], r) :
                      /\ path \in visited
                      /\ HasXsShape(path)
                      /\ Cell(all_dfs[i], r, N_nuclide) = StrVal(path[1])
    /\ apc = "done" =>
          /\ visited = {path \in DOMAIN fs : HasXsShape(path)}
          /\ \A r \in 1..Len(big.rows) :
                /\ SourcesOf(big, r) # {}
                /\ \A path \in SourcesOf(big, r) :
                      /\ HasXsShape(path)
                      /\ Cell(big, r, N_nuclide) = StrVal(path[1])

\* A file deep below xs gave rows labelled U235 while a file outside any xs
\* directory of the same tree was passed over.
C6_Witness ==
    /\ apc = "done"
    /\ DOMAIN fs = {P_deep, P_weird}
    /\ visited = {P_deep}
    /\ big.rows # <<>>
    /\ \A r \in 1..Len(big.rows) : Cell(big, r, N_nuclide) = StrVal(D_U235)

RECURSIVE RowsBefore(_, _)
\* The number of rows of the frames before the i-th.
RowsBefore(dfs, i) ==
    IF i <= 1 THEN 0 ELSE RowsBefore(dfs, i - 1) + Len(dfs[i - 1].rows)

\* The files visited whose text has a valid data line.
FilesWithRows ==
    {path \in visited :
        \E i \in 1..Len(SplitLines(fs[path])) :
            IsValidDataLine(SplitLines(fs[path])[i])}

\* C7: the aggregate has, without repetition, the columns of all per-file
\* tables and as many rows as they have together; the rows stand in the order
\* collected, each with its file's values under its file's columns and NaN
\* under the others; every file with data lines has its table among them.
C7_ConcatUnion ==
    (apc = "done" /\ all_dfs # <<>>) =>
        /\ Len(all_dfs) = Cardinality(FilesWithRows)
        /\ ColumnSet(big) = UNION {ColumnSet(all_dfs[i]) : i \in 1..Len(all_dfs)}
        /\ Cardinality(ColumnSet(big)) = Len(big.columns)
        /\ Len(big.rows) = RowsBefore(all_dfs, Len(all_dfs) + 1)
        /\ \A i \in 1..Len(all_dfs) : \A r \in 1..Len(all_dfs[i].rows) :
              LET row == big.rows[RowsBefore(all_dfs, i) + r] IN
              \A c \in 1..Len(big.columns) :
                  IF big.columns[c] \in ColumnSet(all_dfs[i])
                  THEN row[c] = Cell(all_dfs[i], r, big.columns[c])
                  ELSE row[c] = NaN

\* Two files with different columns were concatenated: a row of the one holds
\* NaN under a column only the other has.
C7_Witness ==
    /\ apc = "done"
    /\ Len(all_dfs) = 2
    /\ ColumnSet(all_dfs[1]) # ColumnSet(all_dfs[2])
    /\ Len(big.rows) = Len(all_dfs[1].rows) + Len(all_dfs[2].rows)
    /\ \E c \in 1..Len(big.columns) :
          /\ big.columns[c] \notin ColumnSet(all_dfs[1])
          /\ big.rows[1][c] = NaN

====
